---- MODULE Spec2Model ----
(***************************************************************************)
(* WIF recovery tool (src/main.py): candidate enumeration over a template, *)
(* structural filter, Base58Check validation, progress file, SIGINT        *)
(* handler and the scan loop of main().                                    *)
(*                                                                         *)
(* Strings are sequences of one-character strings.  Byte strings are       *)
(* sequences of 0..255.  Dictionaries and 0-based lists are functions.     *)
(***************************************************************************)
EXTENDS Integers, Sequences, FiniteSets, TLC

(***************************************************************************)
(* Configuration area (src/main.py lines 9-23).  The program's template    *)
(* and POSITION_CANDIDATES are module constants a user edits; the model    *)
(* runs the program on a table of such configurations.                     *)
(***************************************************************************)

ALPHABET ==
    <<"1", "2", "3", "4", "5", "6", "7", "8", "9",
      "A", "B", "C", "D", "E", "F", "G", "H", "J", "K", "L", "M", "N",
      "P", "Q", "R", "S", "T", "U", "V", "W", "X", "Y", "Z",
      "a", "b", "c", "d", "e", "f", "g", "h", "i", "j", "k",
      "m", "n", "o", "p", "q", "r", "s", "t", "u", "v", "w", "x", "y", "z">>

\* Each entry: TEMPLATE_WIF, POSITION_CANDIDATES (keys count from 1), the
\* indices of the candidates whose Base58Check decoding is left open
\* (probes), the cursors a progress file left by an earlier run may hold
\* (resume) and the other contents the file may start with (extra).
\*   1: "A??XY", positions 2-3 from "12": 4 candidates, none has a lowercase
\*      letter in [1:12].
\*   2: "??x?", with a character outside the alphabet ("0") and a position
\*      beyond the template (9): 8 candidates, 0 and 4 pass the filter.
\*   3: "K?z", position 2 from characters that are all outside the alphabet.
\*   4: fourteen free positions of two choices each, 16384 candidates (the
\*      shipped configuration has 2 * 58^11); positions 2-12 draw from "1a",
\*      so no candidate has an uppercase letter in [1:12].
Configs ==
    << [ template |-> <<"A", "?", "?", "X", "Y">>,
         position_candidates |-> (2 :> <<"1", "2">> @@ 3 :> <<"1", "2">>),
         probes |-> <<1>>,
         resume |-> 0..4,
         extra |-> {"absent", "garbage", "foreign", "fieldless"} ],
       [ template |-> <<"?", "?", "x", "?">>,
         position_candidates |-> (1 :> <<"K", "L">> @@ 2 :> <<"1", "a", "0">>
                                  @@ 4 :> <<"Z", "9">> @@ 9 :> <<"A", "B">>),
         probes |-> <<0, 4, 2>>,
         resume |-> 0..8,
         extra |-> {"absent", "garbage", "foreign", "fieldless"} ],
       [ template |-> <<"K", "?", "z">>,
         position_candidates |-> (2 :> <<"0", "O", "I", "l">>),
         probes |-> <<>>,
         resume |-> {0},
         extra |-> {"absent", "foreign"} ],
       [ template |-> <<"?", "?", "?", "?", "?", "?", "?", "?", "?", "?", "?", "?", "?", "?">>,
         position_candidates |->
             (1 :> <<"K", "L">> @@ 2 :> <<"1", "a">> @@ 3 :> <<"1", "a">>
              @@ 4 :> <<"1", "a">> @@ 5 :> <<"1", "a">> @@ 6 :> <<"1", "a">>
              @@ 7 :> <<"1", "a">> @@ 8 :> <<"1", "a">> @@ 9 :> <<"1", "a">>
              @@ 10 :> <<"1", "a">> @@ 11 :> <<"1", "a">> @@ 12 :> <<"1", "a">>
              @@ 13 :> <<"A", "B">> @@ 14 :> <<"A", "B">>),
         probes |-> <<>>,
         resume |-> {9999},
         extra |-> {} ] >>

SmallConfigs == {1, 2, 3}

AllConfigs == DOMAIN Configs

(***************************************************************************)
(* Characters                                                              *)
(***************************************************************************)

InAlphabet(c) == \E k \in DOMAIN ALPHABET : ALPHABET[k] = c

isdigit(c) == c \in {"0", "1", "2", "3", "4", "5", "6", "7", "8", "9"}

islower(c) ==
    c \in {"a", "b", "c", "d", "e", "f", "g", "h", "i", "j", "k", "l", "m",
           "n", "o", "p", "q", "r", "s", "t", "u", "v", "w", "x", "y", "z"}

isupper(c) ==
    c \in {"A", "B", "C", "D", "E", "F", "G", "H", "I", "J", "K", "L", "M",
           "N", "O", "P", "Q", "R", "S", "T", "U", "V", "W", "X", "Y", "Z"}

(***************************************************************************)
(* main(), lines 116-121: POSITION_CANDIDATES (from 1) to index_cand       *)
(* (from 0), dropping positions outside the template.                      *)
(***************************************************************************)
index_cand_of(template, position_candidates) ==
    [idx \in {pos - 1 : pos \in {p \in DOMAIN position_candidates :
                                   ~(p - 1 < 0 \/ p - 1 >= Len(template))}}
        |-> position_candidates[idx + 1]]

\* [c for c in index_cand_map[idx] if c in ALPHABET]
allowed(cand_str) == SelectSeq(cand_str, InAlphabet)

(***************************************************************************)
(* generate_candidates_safe, lines 41-63.  positions[idx] is the list of   *)
(* choices of position idx (the code's pair (idx, choices) has idx equal   *)
(* to its place in the list).  A generator is modelled by the sequence of  *)
(* the values it yields; the loop of main() takes them one at a time.      *)
(***************************************************************************)
positions_of(template, index_cand_map) ==
    [idx \in 0..(Len(template) - 1) |->
        IF idx \in DOMAIN index_cand_map
        THEN allowed(index_cand_map[idx])
        ELSE <<template[idx + 1]>>]

RECURSIVE generate_combinations(_, _, _)
RECURSIVE for_choice(_, _, _, _)

\* A faulty variant of generate_combinations: the loop over the choices starts at
\* the second one.
generate_combinations_from_second(positions, pos_index, current) ==
    IF pos_index = Cardinality(DOMAIN positions)
    THEN <<current>>
    ELSE for_choice(positions, pos_index, current, 2)

\* lines 53-60: the values generate_combinations(pos_index, current) yields
generate_combinations(positions, pos_index, current) ==
    IF pos_index = Cardinality(DOMAIN positions)
    THEN <<current>>
    ELSE for_choice(positions, pos_index, current, 1)

\* A faulty variant of for_choice: the choices are taken last to first.
for_choice_reversed(positions, pos_index, current, k) ==
    IF k > Len(positions[pos_index])
    THEN <<>>
    ELSE for_choice(positions, pos_index, current, k + 1)
         \o generate_combinations(positions, pos_index + 1,
                                  [current EXCEPT ![pos_index + 1] = positions[pos_index][k]])

\* lines 58-60: the for loop over choices, from the k-th choice on
for_choice(positions, pos_index, current, k) ==
    IF k > Len(positions[pos_index])
    THEN <<>>
    ELSE generate_combinations(positions, pos_index + 1,
                               [current EXCEPT ![pos_index + 1] = positions[pos_index][k]])
         \o for_choice(positions, pos_index, current, k + 1)

generate_candidates_safe(template, index_cand_map) ==
    generate_combinations(positions_of(template, index_cand_map), 0,
                          [j \in 1..Len(template) |-> "None"])

(***************************************************************************)
(* calculate_total_combinations, lines 100-105                             *)
(***************************************************************************)
RECURSIVE total_from(_, _, _)
total_from(template, index_cand_map, idx) ==
    IF idx >= Len(template)
    THEN 1
    ELSE (IF idx \in DOMAIN index_cand_map
          THEN Len(allowed(index_cand_map[idx]))
          ELSE 1) * total_from(template, index_cand_map, idx + 1)

calculate_total_combinations(template, index_cand_map) ==
    total_from(template, index_cand_map, 0)

(***************************************************************************)
(* Base58Check.  base58.b58decode_check is a library call (line 29): it    *)
(* either raises or returns the decoded bytes without the 4 checksum       *)
(* bytes.  Which strings decode, and to what, is fixed for a run and left  *)
(* open: lib maps the probe candidates to an outcome, every other string   *)
(* raises (bad checksum).                                                  *)
(***************************************************************************)
Payload == [j \in 1..32 |-> (j * 37) % 256]

Raises == [ok |-> FALSE, raw |-> <<>>]

DecodeOutcomes ==
    { Raises,
      [ok |-> TRUE, raw |-> <<128>> \o Payload],
      [ok |-> TRUE, raw |-> <<128>> \o Payload \o <<1>>],
      [ok |-> TRUE, raw |-> <<128>> \o Payload \o <<2>>],
      [ok |-> TRUE, raw |-> <<128>> \o SubSeq(Payload, 1, 31)],
      [ok |-> TRUE, raw |-> <<0>> \o Payload],
      [ok |-> TRUE, raw |-> <<>>] }

b58decode_check(decode, wif) ==
    IF wif \in DOMAIN decode THEN decode[wif] ELSE Raises

\* What wif_to_privkey gives when an exception leaves it (ValueError of the
\* library or of lines 31/38, IndexError of raw[0]); line 188 catches it.
Rejected == [ok |-> FALSE, payload |-> <<>>, compressed |-> FALSE]

\* A faulty variant of wif_to_privkey: the version byte is not looked at.
wif_to_privkey_any_version(decode, wif) ==
    LET d == b58decode_check(decode, wif)
        raw == d.raw
        payload == SubSeq(raw, 2, Len(raw))
    IN  IF ~d.ok THEN Rejected
        ELSE IF Len(raw) = 0 THEN Rejected
        ELSE IF Len(payload) = 32
             THEN [ok |-> TRUE, payload |-> payload, compressed |-> FALSE]
        ELSE IF Len(payload) = 33 /\ payload[Len(payload)] = 1
             THEN [ok |-> TRUE, payload |-> SubSeq(payload, 1, Len(payload) - 1),
                   compressed |-> TRUE]
        ELSE Rejected

\* wif_to_privkey, lines 28-38
wif_to_privkey(decode, wif) ==
    LET d == b58decode_check(decode, wif)
        raw == d.raw
        payload == SubSeq(raw, 2, Len(raw))
    IN  IF ~d.ok THEN Rejected
        ELSE IF Len(raw) = 0 THEN Rejected
        ELSE IF raw[1] # 128 THEN Rejected
        ELSE IF Len(payload) = 32
             THEN [ok |-> TRUE, payload |-> payload, compressed |-> FALSE]
        ELSE IF Len(payload) = 33 /\ payload[Len(payload)] = 1
             THEN [ok |-> TRUE, payload |-> SubSeq(payload, 1, Len(payload) - 1),
                   compressed |-> TRUE]
        ELSE Rejected

\* bytes.hex(), line 195
HexDigits ==
    <<"0", "1", "2", "3", "4", "5", "6", "7", "8", "9", "a", "b", "c", "d", "e", "f">>

RECURSIVE hex(_)
hex(bytes) ==
    IF bytes = <<>>
    THEN <<>>
    ELSE <<HexDigits[(bytes[1] \div 16) + 1], HexDigits[(bytes[1] % 16) + 1]>>
         \o hex(Tail(bytes))

(***************************************************************************)
(* The structural filter, lines 162-167: wif[1:12] holds a digit, a        *)
(* lowercase and an uppercase letter.                                      *)
(***************************************************************************)
segment_of(w) == SubSeq(w, 2, IF Len(w) < 12 THEN Len(w) ELSE 12)

passes_filter(w) ==
    LET segment == segment_of(w)
    IN  /\ \E k \in DOMAIN segment : isdigit(segment[k])
        /\ \E k \in DOMAIN segment : islower(segment[k])
        /\ \E k \in DOMAIN segment : isupper(segment[k])

(***************************************************************************)
(* The progress file, lines 66-88.  kind is absent (no file), garbage (a   *)
(* file json.load raises on), record, or other (JSON that loads to a       *)
(* non-empty object without the keys of a record, such as {"version": 2}). *)
(* json turns the tuples of found into lists; the timestamp is written     *)
(* and never read, and is left out.                                        *)
(***************************************************************************)
NoFile == [kind |-> "absent", tested_count |-> 0, total_candidates |-> 0, found_wifs |-> <<>>]

Garbage == [kind |-> "garbage", tested_count |-> 0, total_candidates |-> 0, found_wifs |-> <<>>]

Fieldless == [kind |-> "other", tested_count |-> 0, total_candidates |-> 0, found_wifs |-> <<>>]

RECURSIVE json(_)
json(found_wifs) ==
    IF found_wifs = <<>>
    THEN <<>>
    ELSE <<[Head(found_wifs) EXCEPT !.py = "list"]>> \o json(Tail(found_wifs))

\* What open(PROGRESS_FILE, 'w') and json.dump can do: succeed, fail before
\* the file is truncated, or fail after (a partial file).
SaveOutcomes == {"ok", "open_fail", "dump_fail"}

\* A faulty variant of save_progress: a failed write removes the file.
save_progress_unlinks(file, outcome, tested_count, total, found_wifs) ==
    CASE outcome = "ok" ->
           [kind |-> "record", tested_count |-> tested_count,
            total_candidates |-> total, found_wifs |-> json(found_wifs)]
      [] OTHER -> NoFile

\* save_progress, lines 66-77: the file after the call
save_progress(file, outcome, tested_count, total, found_wifs) ==
    CASE outcome = "ok" ->
           [kind |-> "record", tested_count |-> tested_count,
            total_candidates |-> total, found_wifs |-> json(found_wifs)]
      [] outcome = "open_fail" -> file
      [] OTHER -> Garbage

\* load_progress, lines 80-88: what json.load returns, or None (modelled by
\* NoFile) when there is no file or json.load raises
load_progress(file) == IF file.kind \in {"record", "other"} THEN file ELSE NoFile

\* `if progress:` (line 127): None is false, a dict with keys is true
truthy(progress) == progress.kind \in {"record", "other"}

\* progress['tested_count'], progress['found_wifs'] (lines 130-131) raise
\* KeyError on an object without these keys
has_fields(progress) == progress.kind = "record"

\* input(...).lower().strip(), line 128
lower(c) == CASE c = "Y" -> "y" [] c = "N" -> "n" [] OTHER -> c

RECURSIVE lstrip(_)
lstrip(str) == IF str # <<>> /\ Head(str) = " " THEN lstrip(Tail(str)) ELSE str

RECURSIVE rstrip(_)
rstrip(str) ==
    IF str # <<>> /\ str[Len(str)] = " " THEN rstrip(SubSeq(str, 1, Len(str) - 1)) ELSE str

normalise(str) == rstrip(lstrip([k \in DOMAIN str |-> lower(str[k])]))

Inputs == { <<"y">>, <<" ", "Y", " ">>, <<"n">>, <<"y", "e", "s">>, <<>> }

(***************************************************************************)
(* The configurations, computed once                                       *)
(***************************************************************************)
index_cand(c) == index_cand_of(Configs[c].template, Configs[c].position_candidates)

\* candidate_generator of line 154, as the sequence of all it yields.
\* (Tuples, so that each configuration's sequence is computed once.)
candidates_of(c) == generate_candidates_safe(Configs[c].template, index_cand(c))

Candidates == <<candidates_of(1), candidates_of(2), candidates_of(3), candidates_of(4)>>

total_of(c) == calculate_total_combinations(Configs[c].template, index_cand(c))

Total == <<total_of(1), total_of(2), total_of(3), total_of(4)>>

\* The decodings left open for configuration c: the first probe decodes to
\* anything, the second raises or is a compressed key, the others are
\* uncompressed keys.
ProbeWif(c, j) ==
    IF Configs[c].probes[j] < Len(Candidates[c])
    THEN Candidates[c][Configs[c].probes[j] + 1]
    ELSE Configs[c].template

Worlds(c) ==
    LET probes == Configs[c].probes
        wifs == {ProbeWif(c, j) : j \in DOMAIN probes}
    IN  {f \in [wifs -> DecodeOutcomes] :
            \A j \in DOMAIN probes :
                /\ j = 2 => f[ProbeWif(c, j)] \in {Raises, [ok |-> TRUE, raw |-> <<128>> \o Payload \o <<1>>]}
                /\ j > 2 => f[ProbeWif(c, j)] = [ok |-> TRUE, raw |-> <<128>> \o Payload]}

\* The entry line 195 appends for an accepted candidate
entry(w, r) == [wif |-> w, priv_hex |-> hex(r.payload), compressed |-> r.compressed, py |-> "tuple"]

\* Whether the candidate string w passes the filter and the validator
accepted(decode, w) == passes_filter(w) /\ wif_to_privkey(decode, w).ok

\* The entries line 195 appends for the strings of wifs, in order
RECURSIVE entries(_, _)
entries(decode, wifs) ==
    IF wifs = <<>>
    THEN <<>>
    ELSE <<entry(Head(wifs), wif_to_privkey(decode, Head(wifs)))>> \o entries(decode, Tail(wifs))

\* The entries of the accepted candidates with index in [lo, hi), in order
Matches(c, decode, lo, hi) ==
    LET last == IF hi < Len(Candidates[c]) THEN hi ELSE Len(Candidates[c])
        ok(w) == accepted(decode, w)
    IN  entries(decode, SelectSeq(SubSeq(Candidates[c], lo + 1, last), ok))

\* A record written for another template
Foreign ==
    [kind |-> "record", tested_count |-> 5, total_candidates |-> 6,
     found_wifs |-> <<[wif |-> <<"L", "2", "b", "Q", "7">>, priv_hex |-> hex(Payload),
                       compressed |-> TRUE, py |-> "list"]>>]

\* What the progress file may hold when the program starts: nothing, an
\* unreadable file, JSON that is no record, a record of another template,
\* the record an earlier run on this template wrote at cursor k, with every
\* match below k or with the match at k - 1 still missing (written between
\* lines 159 and 195).
InitStores(c, decode) ==
    {x \in {NoFile} : "absent" \in Configs[c].extra}
    \cup {x \in {Garbage} : "garbage" \in Configs[c].extra}
    \cup {x \in {Foreign} : "foreign" \in Configs[c].extra}
    \cup {x \in {Fieldless} : "fieldless" \in Configs[c].extra}
    \cup {[kind |-> "record", tested_count |-> k, total_candidates |-> Total[c],
           found_wifs |-> json(Matches(c, decode, 0, k))] : k \in Configs[c].resume}
    \cup {[kind |-> "record", tested_count |-> k, total_candidates |-> Total[c],
           found_wifs |-> json(Matches(c, decode, 0, k - 1))] : k \in Configs[c].resume \ {0}}

(***************************************************************************)
(* State                                                                   *)
(***************************************************************************)
VARIABLES
    cfg,              \* the configuration area in force
    lib,              \* what base58.b58decode_check does on the probes
    store,            \* PROGRESS_FILE
    pc,               \* where main() is
    state,            \* Idle, Scanning, Completed, Interrupted, Fatal
    total_candidates, \* line 123
    tested,           \* lines 130-136, 159
    found,            \* lines 131-137, 195
    i,                \* enumerate's index of the last candidate taken, -1 before
    wif,              \* the last candidate taken
    exhausted,        \* candidate_generator has finished
    priv,             \* what wif_to_privkey returned (line 187)
    lastSave,         \* the last call of save_progress: where, arguments, outcome
    start,            \* how the loop began: resumed or not, tested, found, and
                      \* the total_candidates of the record resumed from
    file0,            \* PROGRESS_FILE as it was when the program started
    processed         \* candidates whose iteration has run to its end

vars ==
    <<cfg, lib, store, pc, state, total_candidates, tested, found, i, wif,
      exhausted, priv, lastSave, start, file0, processed>>

NoSave ==
    [site |-> "none", tested_count |-> 0, total_candidates |-> 0, found_wifs |-> <<>>,
     outcome |-> "none"]

InitFor(cfgs) ==
    /\ cfg \in cfgs
    /\ lib \in Worlds(cfg)
    /\ store \in InitStores(cfg, lib)
    /\ pc = "start"
    /\ state = "Idle"
    /\ total_candidates = 0
    /\ tested = 0
    /\ found = <<>>
    /\ i = -1
    /\ wif = <<>>
    /\ exhausted = FALSE
    /\ priv = Rejected
    /\ lastSave = NoSave
    /\ start = [resumed |-> FALSE, tested |-> 0, found |-> <<>>, total |-> 0]
    /\ file0 = store
    /\ processed = 0

Init == InitFor(SmallConfigs)

InitBig == InitFor(AllConfigs)

\* A call save_progress(tested, total_candidates, found) at `site`
Save(site, outcome) ==
    /\ store' = save_progress(store, outcome, tested, total_candidates, found)
    /\ lastSave' = [site |-> site, tested_count |-> tested,
                    total_candidates |-> total_candidates, found_wifs |-> found,
                    outcome |-> outcome]

(***************************************************************************)
(* main(), lines 110-151: the total, the progress file, the prompt, the    *)
(* SIGINT handler installed.  state is the driver's: Scanning once the     *)
(* loop is entered, Fatal when an exception ends main().                   *)
(***************************************************************************)
Start ==
    /\ pc = "start"
    /\ total_candidates' = Total[cfg]
    /\ LET progress == load_progress(store)
           fresh == /\ tested' = 0
                    /\ found' = <<>>
                    /\ start' = [resumed |-> FALSE, tested |-> 0, found |-> <<>>, total |-> 0]
                    /\ pc' = "for"
                    /\ state' = "Scanning"
       IN  IF truthy(progress)
           THEN \E inp \in Inputs :
                  IF normalise(inp) = <<"y">>
                  THEN IF has_fields(progress)
                       THEN /\ tested' = progress.tested_count
                            /\ found' = progress.found_wifs
                            /\ start' = [resumed |-> TRUE, tested |-> tested', found |-> found',
                                         total |-> progress.total_candidates]
                            /\ pc' = "for"
                            /\ state' = "Scanning"
                       ELSE \* KeyError at line 130, outside the try: main() is left
                            /\ pc' = "exit"
                            /\ state' = "Fatal"
                            /\ UNCHANGED <<tested, found, start>>
                  ELSE fresh
           ELSE fresh
    /\ processed' = tested'
    /\ UNCHANGED <<cfg, lib, store, i, wif, exhausted, priv, lastSave, file0>>

\* A faulty variant of ForNext: the skip test reads i <= tested, so a resumed run
\* also skips the first candidate the earlier run had not examined.
ForNextSkipsOneMore ==
    /\ pc = "for"
    /\ IF i + 1 >= Len(Candidates[cfg])
       THEN /\ exhausted' = TRUE
            /\ pc' = "finish"
            /\ state' = "Completed"
            /\ UNCHANGED <<i, wif, tested>>
       ELSE /\ i' = i + 1
            /\ wif' = Candidates[cfg][i' + 1]
            /\ IF i' <= tested
               THEN /\ pc' = "for"
                    /\ UNCHANGED tested
               ELSE /\ tested' = i' + 1
                    /\ pc' = "filter"
            /\ UNCHANGED <<exhausted, state>>
    /\ UNCHANGED <<cfg, lib, store, total_candidates, found, priv, lastSave, start, processed, file0>>

\* lines 156-159: take the next candidate; the generator is finished, or the
\* candidate is below the cursor and skipped, or it becomes the one examined.
ForNext ==
    /\ pc = "for"
    /\ IF i + 1 >= Len(Candidates[cfg])
       THEN /\ exhausted' = TRUE
            /\ pc' = "finish"
            /\ state' = "Completed"
            /\ UNCHANGED <<i, wif, tested>>
       ELSE /\ i' = i + 1
            /\ wif' = Candidates[cfg][i' + 1]
            /\ IF i' < tested
               THEN /\ pc' = "for"
                    /\ UNCHANGED tested
               ELSE /\ tested' = i' + 1
                    /\ pc' = "filter"
            /\ UNCHANGED <<exhausted, state>>
    /\ UNCHANGED <<cfg, lib, store, total_candidates, found, priv, lastSave, start, processed, file0>>

\* A faulty variant of Filter: the result of the test is not used.
FilterIgnored ==
    /\ pc = "filter"
    /\ pc' = "report"
    /\ UNCHANGED <<cfg, lib, store, state, total_candidates, tested, found, i, wif,
                   exhausted, priv, lastSave, start, processed, file0>>

\* lines 162-168: the structural filter; a rejected candidate ends the iteration
Filter ==
    /\ pc = "filter"
    /\ IF passes_filter(wif)
       THEN /\ pc' = "report"
            /\ UNCHANGED processed
       ELSE /\ pc' = "for"
            /\ processed' = tested
    /\ UNCHANGED <<cfg, lib, store, state, total_candidates, tested, found, i, wif,
                   exhausted, priv, lastSave, start, file0>>

\* lines 170-184: the progress line (print can raise OSError) and the
\* periodic save: 30 s of wall clock have passed (due) or tested is a
\* multiple of 10000.
SaveEvery == 10000

\* A faulty variant of Report: a periodic save that fails raises into the loop.
ReportSaveRaises ==
    /\ pc = "report"
    /\ \/ /\ pc' = "except"
          /\ state' = "Fatal"
          /\ UNCHANGED <<store, lastSave>>
       \/ /\ \E due \in BOOLEAN :
                IF due \/ tested % SaveEvery = 0
                THEN \E outcome \in SaveOutcomes :
                        /\ Save("periodic", outcome)
                        /\ pc' = IF outcome = "ok" THEN "validate" ELSE "except"
                        /\ state' = IF outcome = "ok" THEN state ELSE "Fatal"
                ELSE /\ UNCHANGED <<store, lastSave, state>>
                     /\ pc' = "validate"
    /\ UNCHANGED <<cfg, lib, total_candidates, tested, found, i, wif, exhausted, priv,
                   start, processed, file0>>

Report ==
    /\ pc = "report"
    /\ \/ /\ pc' = "except"
          /\ state' = "Fatal"
          /\ UNCHANGED <<store, lastSave>>
       \/ /\ \E due \in BOOLEAN :
                IF due \/ tested % SaveEvery = 0
                THEN \E outcome \in SaveOutcomes : Save("periodic", outcome)
                ELSE UNCHANGED <<store, lastSave>>
          /\ pc' = "validate"
          /\ UNCHANGED state
    /\ UNCHANGED <<cfg, lib, total_candidates, tested, found, i, wif, exhausted, priv,
                   start, processed, file0>>

\* lines 186-189: the validator; a rejected candidate ends the iteration
Validate ==
    /\ pc = "validate"
    /\ LET r == wif_to_privkey(lib, wif)
       IN  IF r.ok
           THEN /\ priv' = r
                /\ pc' = "match"
                /\ UNCHANGED processed
           ELSE /\ pc' = "for"
                /\ processed' = tested
                /\ UNCHANGED priv
    /\ UNCHANGED <<cfg, lib, store, state, total_candidates, tested, found, i, wif,
                   exhausted, lastSave, start, file0>>

\* A faulty variant of Match: the loop is left after the first match.
MatchStops ==
    /\ pc = "match"
    /\ found' = Append(found, entry(wif, priv))
    /\ processed' = tested
    /\ pc' = "finish"
    /\ state' = "Completed"
    /\ UNCHANGED <<cfg, lib, store, total_candidates, tested, i, wif, exhausted, priv,
                   lastSave, start, file0>>

\* A faulty variant of Match: found is replaced by the new match alone.
MatchKeepsLast ==
    /\ pc = "match"
    /\ \/ /\ pc' = "except"
          /\ state' = "Fatal"
          /\ UNCHANGED <<found, processed>>
       \/ /\ found' = <<entry(wif, priv)>>
          /\ processed' = tested
          /\ pc' = "save_match"
          /\ UNCHANGED state
    /\ UNCHANGED <<cfg, lib, store, total_candidates, tested, i, wif, exhausted, priv,
                   lastSave, start, file0>>

\* lines 191-195: the match is printed (print can raise) and appended
Match ==
    /\ pc = "match"
    /\ \/ /\ pc' = "except"
          /\ state' = "Fatal"
          /\ UNCHANGED <<found, processed>>
       \/ /\ found' = Append(found, entry(wif, priv))
          /\ processed' = tested
          /\ pc' = "save_match"
          /\ UNCHANGED state
    /\ UNCHANGED <<cfg, lib, store, total_candidates, tested, i, wif, exhausted, priv,
                   lastSave, start, file0>>

\* A faulty variant of SaveMatch: the loop goes on without the save of line 196.
SaveMatchLeftOut ==
    /\ pc = "save_match"
    /\ pc' = "for"
    /\ UNCHANGED <<cfg, lib, store, state, total_candidates, tested, found, i, wif, exhausted,
                   priv, lastSave, start, processed, file0>>

\* line 196
SaveMatch ==
    /\ pc = "save_match"
    /\ \E outcome \in SaveOutcomes : Save("match", outcome)
    /\ pc' = "for"
    /\ UNCHANGED <<cfg, lib, state, total_candidates, tested, found, i, wif, exhausted,
                   priv, start, processed, file0>>

\* lines 198-200: the enumeration is over; print, then remove the file if
\* it exists (print and os.remove can raise OSError)
Finish ==
    /\ pc = "finish"
    /\ \/ /\ pc' = "except"
          /\ state' = "Fatal"
          /\ UNCHANGED store
       \/ /\ store' = NoFile
          /\ pc' = "summary"
          /\ UNCHANGED state
    /\ UNCHANGED <<cfg, lib, total_candidates, tested, found, i, wif, exhausted, priv,
                   lastSave, start, processed, file0>>

\* A faulty variant of Except: the handler removes the progress file instead of
\* saving.
ExceptDiscards ==
    /\ pc = "except"
    /\ store' = NoFile
    /\ pc' = "summary"
    /\ UNCHANGED <<cfg, lib, state, total_candidates, tested, found, i, wif, exhausted,
                   priv, lastSave, start, processed, file0>>

\* lines 202-206: except Exception around the loop
Except ==
    /\ pc = "except"
    /\ \E outcome \in SaveOutcomes : Save("except", outcome)
    /\ pc' = "summary"
    /\ UNCHANGED <<cfg, lib, state, total_candidates, tested, found, i, wif, exhausted,
                   priv, start, processed, file0>>

\* lines 208-210: the found list is printed and main() returns
Summary ==
    /\ pc = "summary"
    /\ pc' = "exit"
    /\ UNCHANGED <<cfg, lib, store, state, total_candidates, tested, found, i, wif,
                   exhausted, priv, lastSave, start, processed, file0>>

\* A faulty variant of signal_handler: the exit of line 147 is caught by the
\* except clause of the loop.
signal_handler_caught ==
    /\ pc \notin {"start", "exit"}
    /\ \E outcome \in SaveOutcomes : Save("sigint", outcome)
    /\ pc' = "except"
    /\ state' = "Fatal"
    /\ UNCHANGED <<cfg, lib, total_candidates, tested, found, i, wif, exhausted, priv,
                   start, processed, file0>>

\* lines 143-147: SIGINT, delivered between any two steps of main() once
\* the handler is installed (line 149); sys.exit(0) raises SystemExit, which
\* no `except Exception` catches.  The handler stays installed after the
\* loop; Scanning becomes Interrupted, Completed and Fatal are final.
signal_handler ==
    /\ pc \notin {"start", "exit"}
    /\ \E outcome \in SaveOutcomes : Save("sigint", outcome)
    /\ pc' = "exit"
    /\ state' = IF state = "Scanning" THEN "Interrupted" ELSE state
    /\ UNCHANGED <<cfg, lib, total_candidates, tested, found, i, wif, exhausted, priv,
                   start, processed, file0>>

Next ==
    \/ Start
    \/ ForNext
    \/ Filter
    \/ Report
    \/ Validate
    \/ Match
    \/ SaveMatch
    \/ Finish
    \/ Except
    \/ Summary
    \/ signal_handler

Spec == Init /\ [][Next]_vars

SpecBig == InitBig /\ [][Next]_vars

(***************************************************************************)
(* Definitions the properties are stated with                              *)
(***************************************************************************)

\* C_i: the characters position idx (from 0) of a candidate may hold
CandidateSet(c, idx) ==
    IF idx \in DOMAIN index_cand(c)
    THEN {ch \in {index_cand(c)[idx][k] : k \in DOMAIN index_cand(c)[idx]} : InAlphabet(ch)}
    ELSE {Configs[c].template[idx + 1]}

RECURSIVE ProductSize(_, _)
ProductSize(c, idx) ==
    IF idx >= Len(Configs[c].template)
    THEN 1
    ELSE Cardinality(CandidateSet(c, idx)) * ProductSize(c, idx + 1)

\* The candidate with enumeration index n in the mixed-radix order in which
\* position 0 varies slowest and each position steps through its candidate
\* string in the order given.
ChoicesAt(c, idx) == positions_of(Configs[c].template, index_cand(c))[idx]

RECURSIVE Weight(_, _)
Weight(c, idx) ==
    IF idx + 1 >= Len(Configs[c].template)
    THEN 1
    ELSE Len(ChoicesAt(c, idx + 1)) * Weight(c, idx + 1)

MixedRadix(c, n) ==
    [p \in 1..Len(Configs[c].template) |->
        ChoicesAt(c, p - 1)[((n \div Weight(c, p - 1)) % Len(ChoicesAt(c, p - 1))) + 1]]

\* main() is between line 159 and the end of the iteration of candidate i
Examining == pc \in {"filter", "report", "validate", "match", "save_match"}

\* The loop began from a cursor k in [0, T] with exactly the matches among
\* the candidates 0..k-1 (a fresh start is the case k = 0).
ConsistentStart ==
    /\ pc # "start"
    /\ start.tested \in 0..Total[cfg]
    /\ json(start.found) = json(Matches(cfg, lib, 0, start.tested))

HasEmptySet(c) == \E idx \in DOMAIN index_cand(c) : allowed(index_cand(c)[idx]) = <<>>

(***************************************************************************)
(* C1  Resume equivalence.  A run that starts from a record {tested_count  *)
(* = k, found_wifs = the matches among candidates 0..k-1}, k in [0, T],    *)
(* examines no candidate below k, examines candidate i only when all of    *)
(* k..i-1 have been dealt with (so in enumeration order), and when the     *)
(* enumeration is exhausted has tested = T and the same found entries as   *)
(* the run from 0: the matches among 0..T-1.                               *)
(***************************************************************************)
ResumeEquivalence ==
    ConsistentStart =>
        /\ Examining => /\ i >= start.tested
                        /\ tested = i + 1
                        /\ wif = Candidates[cfg][i + 1]
        /\ (Examining /\ pc # "save_match") => processed = i
        /\ exhausted => /\ tested = Total[cfg]
                        /\ json(found) = json(Matches(cfg, lib, 0, Total[cfg]))

ResumeEquivalenceWitness ==
    /\ ConsistentStart
    /\ start.resumed
    /\ start.tested \in 1..(Total[cfg] - 1)
    /\ start.found # <<>>
    /\ exhausted
    /\ Len(found) > Len(start.found)

(***************************************************************************)
(* C2  Cancellation consistency.  The record the SIGINT handler writes has *)
(* tested_count equal to the number of candidates fully processed.         *)
(***************************************************************************)
CancellationConsistent ==
    (pc = "exit" /\ lastSave.site = "sigint" /\ lastSave.outcome = "ok")
        => store.tested_count = processed

MixedRadixOrder ==
    /\ \A n \in 0..(Len(Candidates[cfg]) - 1) : Candidates[cfg][n + 1] = MixedRadix(cfg, n)
    /\ i >= 0 => wif = MixedRadix(cfg, i)
    /\ cfg = 1 => Candidates[cfg] = << <<"A", "1", "1", "X", "Y">>, <<"A", "1", "2", "X", "Y">>,
                                       <<"A", "2", "1", "X", "Y">>, <<"A", "2", "2", "X", "Y">> >>

MixedRadixOrderWitness ==
    /\ cfg = 1
    /\ i = 2
    /\ wif = <<"A", "2", "1", "X", "Y">>

(***************************************************************************)
(* C5  The scan does not stop at the first match: when a run that started  *)
(* from cursor 0 is Completed, found holds, in enumeration order and once  *)
(* each, exactly the candidates of [0, T) that pass the filter and the     *)
(* validator.                                                              *)
(***************************************************************************)
FindsEveryMatch ==
    (state = "Completed" /\ start.tested = 0)
        => found = Matches(cfg, lib, 0, Total[cfg])

FindsEveryMatchWitness ==
    /\ state = "Completed"
    /\ start.tested = 0
    /\ Len(found) = 2
    /\ found[1].wif = Candidates[cfg][1]
    /\ found[2].wif = Candidates[cfg][5]

(***************************************************************************)
(* C6  On resume, a persisted total_candidates that differs from the       *)
(* recomputed total aborts the run before any candidate is scanned.        *)
(***************************************************************************)
TotalMismatchAborts ==
    (start.resumed /\ start.total # total_candidates)
        => (state = "Fatal" /\ i = -1 /\ tested = 0 /\ found = <<>>)

(***************************************************************************)
(* C7  An empty candidate set (also one emptied by dropping characters     *)
(* outside the alphabet) makes the run fail before Scanning, without       *)
(* touching the progress file.                                             *)
(***************************************************************************)
EmptySetFailsFast ==
    HasEmptySet(cfg) => (state \notin {"Scanning", "Completed"} /\ store = file0)

(***************************************************************************)
(* C8  Once the run has terminated in Completed no progress file exists,   *)
(* whenever SIGINT is delivered.                                           *)
(***************************************************************************)
CompletedLeavesNoRecord ==
    (pc = "exit" /\ state = "Completed") => store.kind = "absent"

CheckpointEveryTenThousand ==
    (pc = "for" /\ i >= start.tested /\ tested = i + 1 /\ tested % SaveEvery = 0)
        => (lastSave.site # "none" /\ lastSave.tested_count = tested)

(***************************************************************************)
(* C11  A match is appended and saved at once.  Whenever the loop is about *)
(* to take the next candidate and the candidate it has just examined       *)
(* passed the filter and the validator, the last entry of found is that    *)
(* match (candidate, payload hex, format flag) and the last save issued is *)
(* the one of line 196, with tested_count = the candidate's index + 1 and  *)
(* found_wifs = found, the match included.                                 *)
(***************************************************************************)
MatchSavedAtOnce ==
    (pc = "for" /\ i >= 0 /\ i >= start.tested /\ accepted(lib, wif))
        => /\ found # <<>>
           /\ found[Len(found)] = entry(wif, wif_to_privkey(lib, wif))
           /\ lastSave.site = "match"
           /\ lastSave.tested_count = i + 1
           /\ lastSave.found_wifs = found
           /\ lastSave.total_candidates = total_candidates

MatchSavedAtOnceWitness ==
    /\ cfg = 2
    /\ pc = "for"
    /\ i = 4
    /\ accepted(lib, wif)
    /\ Len(found) = 2
    /\ found[2].wif = <<"L", "1", "x", "Z">>
    /\ found[2].compressed
    /\ lastSave.site = "match"
    /\ lastSave.outcome = "ok"
    /\ store.tested_count = 5
    /\ Len(store.found_wifs) = 2

(***************************************************************************)
(* C12  Within a run tested never decreases and found only grows at its    *)
(* end: in every step of main() and of the SIGINT handler (the prompt, a   *)
(* skipped or examined candidate, a match, a save that succeeds or fails,  *)
(* the exception handler) the new tested is at least the old one and the   *)
(* old found is a prefix of the new one, longer by at most one entry.      *)
(***************************************************************************)
IsPrefix(s, t) == Len(s) <= Len(t) /\ SubSeq(t, 1, Len(s)) = s

MonotoneCursorAppendOnlyFound ==
    [][/\ tested' >= tested
       /\ IsPrefix(found, found')
       /\ pc # "start" => Len(found') <= Len(found) + 1]_vars

MonotoneCursorAppendOnlyFoundWitness ==
    /\ start.resumed
    /\ start.found # <<>>
    /\ tested > start.tested
    /\ Len(found) = Len(start.found) + 1
    /\ IsPrefix(start.found, found)
    /\ found[Len(found)].py = "tuple"
    /\ lastSave.site = "match"
    /\ lastSave.outcome = "dump_fail"
    /\ pc = "filter"

(***************************************************************************)
(* C13  An exception inside the try block of the scan (here: an OSError of *)
(* a print at lines 177, 191-194 or 198, or of os.remove) is caught by the *)
(* one except clause of line 202: the driver is Fatal from then on and     *)
(* never Completed, the handler issues one save of the current tested and  *)
(* found before main() goes on to the summary, no candidate is taken       *)
(* afterwards, and the progress file is not removed.                       *)
(***************************************************************************)
FaultSavesAndEndsFatal ==
    [][/\ pc = "except" =>
            /\ state = "Fatal"
            /\ pc' \in {"summary", "exit"}
            /\ lastSave'.site \in {"except", "sigint"}
            /\ lastSave'.tested_count = tested
            /\ lastSave'.found_wifs = found
            /\ store'.kind = "absent" => store.kind = "absent"
       /\ state = "Fatal" =>
            /\ state' = "Fatal"
            /\ pc' \in {"except", "summary", "exit"}
            /\ UNCHANGED <<tested, found, i>>
            /\ store'.kind = "absent" => store.kind = "absent"
       /\ (pc = "summary" /\ state = "Fatal") => lastSave.site = "except"]_vars

FaultSavesAndEndsFatalWitness ==
    /\ pc = "exit"
    /\ state = "Fatal"
    /\ lastSave.site = "except"
    /\ lastSave.outcome = "ok"
    /\ store.kind = "record"
    /\ store.tested_count = tested
    /\ tested = 5
    /\ Len(found) = 1
    /\ store.found_wifs = json(found)
    /\ ~exhausted

(***************************************************************************)
(* C14  Every record written satisfies 0 <= tested_count <=                *)
(* total_candidates, whatever the start (fresh, resumed, resume declined)  *)
(* and the save site.                                                      *)
(***************************************************************************)
RecordWithinTotal ==
    lastSave.site # "none"
        => (0 <= lastSave.tested_count /\ lastSave.tested_count <= lastSave.total_candidates)

(***************************************************************************)
(* C15  SIGINT while Scanning: the handler's step issues a save of the     *)
(* current (tested, total_candidates, found) and ends the process in the   *)
(* same step, Interrupted and not Fatal, without entering the except       *)
(* clause; tested, found and the enumerator are as they were, and no step  *)
(* follows the exit, so no further candidate is filtered, validated or     *)
(* appended.                                                               *)
(***************************************************************************)
InterruptStopsCleanly ==
    [][/\ (state = "Scanning" /\ lastSave'.site = "sigint") =>
            /\ lastSave'.tested_count = tested
            /\ lastSave'.total_candidates = total_candidates
            /\ lastSave'.found_wifs = found
            /\ pc' = "exit"
            /\ state' = "Interrupted"
            /\ UNCHANGED <<tested, found, i, wif, priv, processed>>
       /\ state = "Interrupted" => FALSE
       /\ state' = "Interrupted" => (state = "Scanning" /\ lastSave'.site = "sigint")]_vars

InterruptStopsCleanlyWitness ==
    /\ state = "Interrupted"
    /\ pc = "exit"
    /\ lastSave.site = "sigint"
    /\ lastSave.outcome = "ok"
    /\ cfg = 2
    /\ i = 4
    /\ tested = 5
    /\ accepted(lib, wif)
    /\ Len(found) = 1
    /\ found[1].wif = Candidates[cfg][1]
    /\ store.tested_count = 5
    /\ store.found_wifs = json(found)

(***************************************************************************)
(* C16  The validator is not run on a candidate the filter rejects.        *)
(* wif_to_privkey is called only at line 187, and main() is between the    *)
(* filter and the end of the iteration only for a candidate whose          *)
(* characters 1..11 hold a digit, a lowercase and an uppercase letter.  On *)
(* any other candidate the step of the filter goes back to line 156 with   *)
(* the cursor already advanced (tested = i + 1) and with found, the        *)
(* validator's result and the progress file unchanged.                     *)
(***************************************************************************)
FilterBeforeValidator ==
    /\ [](pc \in {"report", "validate", "match", "save_match"} => passes_filter(wif))
    /\ [][(pc = "filter" /\ ~passes_filter(wif) /\ pc' # "exit") =>
            /\ pc' = "for"
            /\ tested = i + 1
            /\ UNCHANGED <<tested, found, priv, i, store, lastSave, state>>]_vars

FilterBeforeValidatorWitness ==
    /\ cfg = 2
    /\ pc = "for"
    /\ i = 2
    /\ tested = 3
    /\ ~passes_filter(wif)
    /\ wif_to_privkey(lib, wif).ok
    /\ start.tested = 0
    /\ \A k \in DOMAIN found : found[k].wif # wif

(***************************************************************************)
(* C17  The validator accepts exactly when Base58Check decoding succeeds   *)
(* (alphabet and checksum), the first decoded byte is 0x80 and the rest is *)
(* either 32 bytes (flag false) or 33 bytes ending in 0x01 (flag true);    *)
(* the payload returned is the 32 bytes after the version byte.  In every  *)
(* other case it rejects, and a rejection in the loop goes back to line    *)
(* 156 with found unchanged and the driver still Scanning.                 *)
(***************************************************************************)
ValidatorAcceptsExactly ==
    /\ [](\A w \in DOMAIN lib \cup {wif} :
            LET d == b58decode_check(lib, w)
                r == wif_to_privkey(lib, w)
                plain == d.ok /\ Len(d.raw) = 33 /\ d.raw[1] = 128
                compressed == d.ok /\ Len(d.raw) = 34 /\ d.raw[1] = 128 /\ d.raw[34] = 1
            IN  /\ r.ok <=> (plain \/ compressed)
                /\ plain => (r.payload = SubSeq(d.raw, 2, 33) /\ ~r.compressed)
                /\ compressed => (r.payload = SubSeq(d.raw, 2, 33) /\ r.compressed)
                /\ r.ok => Len(r.payload) = 32
                /\ ~r.ok => r = Rejected)
    /\ [][(pc = "validate" /\ ~wif_to_privkey(lib, wif).ok /\ pc' # "exit") =>
            /\ pc' = "for"
            /\ state' = "Scanning"
            /\ UNCHANGED <<found, tested, i, store>>]_vars

ValidatorAcceptsExactlyWitness ==
    /\ cfg = 2
    /\ pc = "filter"
    /\ i = 1
    /\ state = "Scanning"
    /\ start.tested = 0
    /\ b58decode_check(lib, Candidates[cfg][1]) = [ok |-> TRUE, raw |-> <<0>> \o Payload]
    /\ passes_filter(Candidates[cfg][1])
    /\ found = <<>>

(***************************************************************************)
(* C18  A progress file that is absent or cannot be read as a record (no   *)
(* file, content json.load raises on, JSON without the fields) is not      *)
(* fatal: the start goes on as if there were no file, with cursor 0 and an *)
(* empty found list, and the loop is entered.                              *)
(***************************************************************************)
UnreadableRecordStartsFresh ==
    [][(pc = "start" /\ store.kind # "record") =>
            /\ pc' = "for"
            /\ state' = "Scanning"
            /\ tested' = 0
            /\ found' = <<>>]_vars

(***************************************************************************)
(* C19  A failing write of the progress file does not abort the scan.  In  *)
(* every step in which save_progress is called and the write fails (open   *)
(* fails, or json.dump fails on the truncated file), tested, found and the *)
(* enumerator are unchanged and main() goes on where it goes on after a    *)
(* write that succeeds: to the validator after the periodic save, to the   *)
(* next candidate after the save of a match, both still Scanning; to the   *)
(* exit after SIGINT, to the summary after the exception handler.          *)
(***************************************************************************)
FailedSaveDoesNotAbort ==
    [][(lastSave' # lastSave /\ lastSave'.outcome # "ok") =>
            /\ UNCHANGED <<tested, found, i, wif, exhausted, priv>>
            /\ lastSave'.site = "periodic" => (pc' = "validate" /\ state' = "Scanning")
            /\ lastSave'.site = "match" => (pc' = "for" /\ state' = "Scanning")
            /\ lastSave'.site = "sigint" => (pc' = "exit" /\ (state = "Scanning" => state' = "Interrupted"))
            /\ lastSave'.site = "except" => (pc' = "summary" /\ state' = state)]_vars

FailedSaveDoesNotAbortWitness ==
    /\ cfg = 2
    /\ state = "Completed"
    /\ pc = "exit"
    /\ start.tested = 0
    /\ file0.kind = "absent"
    /\ store.kind = "absent"
    /\ lastSave.site = "match"
    /\ lastSave.outcome = "dump_fail"
    /\ lastSave.tested_count = 5
    /\ Len(found) = 2
    /\ tested = 8

(***************************************************************************)
(* C20  Every record written is resume-safe: at each call of save_progress *)
(* the found list handed over holds the entries loaded at the start        *)
(* followed by exactly the accepted candidates with index from the start   *)
(* cursor up to, not including, the tested count handed over, so that no   *)
(* candidate below the persisted cursor is still unvalidated.              *)
(***************************************************************************)
EveryRecordResumeSafe ==
    lastSave.site # "none"
        => json(lastSave.found_wifs)
             = json(start.found \o Matches(cfg, lib, start.tested, lastSave.tested_count))

====
